---- MODULE Spec2Model ----
(***************************************************************************)
(* Model of DRMMaster (src/drm-master.py): the play / pause / stop /       *)
(* record / screen-record handlers, the three external process slots       *)
(* (ffplay_proc, ffmpeg_rec_proc, screen_rec_process), the libVLC player   *)
(* and the operating system's process table.                               *)
(*                                                                         *)
(* Texts (the KID:KEY field, the URL field) are sequences of one-character *)
(* strings; the operator edits the two fields freely between two requests, *)
(* so a handler that reads a field draws its text anew at every call.      *)
(* A file path is a pair <<stem, suffix>>; the empty sequence is           *)
(* the empty string a cancelled file dialog returns, and None for a path.  *)
(* A process handle (subprocess.Popen object) is the index of the process  *)
(* in the process table `procs`; None is 0.                                *)
(*                                                                         *)
(* The texts of the status label and of the modal warnings are named by    *)
(* the path a handler took (last.res).  self.screen_rec_path, which is     *)
(* read only to build such texts, is the `out` of the recorder's entry in  *)
(* the process table.  The position slider, the time label and the refresh *)
(* timer take no part in any transition and are left out.                  *)
(***************************************************************************)
EXTENDS Integers, Sequences, FiniteSets, TLC

VARIABLES
  app,                \* "running" | "exited": the Qt event loop        (l.540-544)
  system,             \* platform.system() of this run                   (l.423)
  player,             \* libVLC player state: "stopped"|"playing"|"paused"
  media_sout,         \* file sink of the media being played, NoPath if none
  recording,          \* self.recording                                  (l.35)
  record_path,        \* self.record_path                                (l.36)
  screen_rec_process, \* self.screen_rec_process                         (l.39)
  ffplay_proc,        \* self.ffplay_proc                                (l.44)
  ffmpeg_rec_proc,    \* self.ffmpeg_rec_proc                            (l.45)
  record_btn,         \* label of the record button                      (l.85)
  screen_rec_btn,     \* label of the screen-record button               (l.86)
  procs,              \* OS process table: every child spawned so far
  last                \* history: what the last handler call did

vars == <<app, system, player, media_sout,
          recording, record_path, screen_rec_process,
          ffplay_proc, ffmpeg_rec_proc, record_btn, screen_rec_btn,
          procs, last>>

\* the fields of the window object other than the history and the environment
selfVars == <<player, media_sout, recording, record_path,
              screen_rec_process, ffplay_proc,
              ffmpeg_rec_proc, record_btn, screen_rec_btn>>

----------------------------------------------------------------------------
\* Bounds of the model

\* number of child processes spawned in one run
MaxProcs == 2

----------------------------------------------------------------------------
\* Values

None == 0

NoPath == <<>>

screen_rec_framerate == 25

\* texts the operator can leave in the KID:KEY field
KidKeyTexts == { <<"K", ":", " ">>, <<" ", "K", ":", "E">> }

\* texts the operator can leave in the URL field
UrlTexts == { <<"u">>, <<"u", ".", "m", "p", "d", " ">> }

\* what the save-file dialog can return besides "" (cancelled)
Stems == {"a"}
TypedSuffixes == {""}
FileNames == { <<s, x>> : s \in Stems, x \in TypedSuffixes }
DialogResults == {NoPath} \cup FileNames

Systems == {"Windows", "Linux", "Darwin", "Other"}

\* the systems a run of the handlers is started on: the handlers tell the
\* three supported systems apart only in the command built
RunSystems == {"Linux", "Other"}

Kinds == {"Playback", "StreamRecording", "ScreenRecording"}

\* geometry of the video frame: (x, y, w, h), or None when mapToGlobal raises
Geometries == { <<-1, 30, 640, 2>> }

----------------------------------------------------------------------------
\* Text helpers

IsSpace(c) == c = " "

\* str.strip(): drop leading and trailing whitespace
RECURSIVE LStrip(_)
LStrip(s) ==
  IF s # <<>> /\ IsSpace(Head(s)) THEN LStrip(Tail(s)) ELSE s

RECURSIVE RStrip(_)
RStrip(s) ==
  IF s # <<>> /\ IsSpace(s[Len(s)]) THEN RStrip(SubSeq(s, 1, Len(s) - 1)) ELSE s

Strip(s) == RStrip(LStrip(s))

\* `sub in s` for texts
Contains(s, sub) ==
  \E i \in 1..(Len(s) - Len(sub) + 1) : SubSeq(s, i, i + Len(sub) - 1) = sub

\* A key extraction that splits at the last colon instead of the first
extract_key_after_last_colon(kidkey) ==
  IF \E i \in 1..Len(kidkey) : kidkey[i] = ":"
  THEN LET final == CHOOSE i \in 1..Len(kidkey) :
                      /\ kidkey[i] = ":"
                      /\ \A j \in (i + 1)..Len(kidkey) : kidkey[j] # ":"
       IN Strip(SubSeq(kidkey, final + 1, Len(kidkey)))
  ELSE <<>>

\* kidkey.split(":", 1)[1].strip() when ":" in kidkey, else ""
extract_key_after_colon(kidkey) ==
  IF \E i \in 1..Len(kidkey) : kidkey[i] = ":"
  THEN LET first == CHOOSE i \in 1..Len(kidkey) :
                      /\ kidkey[i] = ":"
                      /\ \A j \in 1..(i - 1) : kidkey[j] # ":"
       IN Strip(SubSeq(kidkey, first + 1, Len(kidkey)))
  ELSE <<>>

\* the manifest check on_record calls (l.266); its definition is not in the
\* source file: a manifest-style URL contains the manifest extension
validate_mpd(url) == Contains(url, <<".", "m", "p", "d">>)

\* `if not Path(fname).suffix: fname = fname + dflt`
WithSuffix(fname, dflt) == IF fname[2] = "" THEN <<fname[1], dflt>> ELSE fname

----------------------------------------------------------------------------
\* The process table and subprocess.Popen

Pids == 1..Len(procs)

IsRunning(ps, p) == p \in 1..Len(ps) /\ ps[p].alive

Live(kind) == { p \in Pids : procs[p].kind = kind /\ procs[p].alive }

\* subprocess.Popen(cmd): a new running child
Popen(ps, kind, out) == Append(ps, [kind |-> kind, out |-> out, alive |-> TRUE])

\* outcomes of the calls made while stopping one child: terminate() can raise,
\* the child can exit within the wait timeout or not, kill() can raise
StopEnv == [term_raises : BOOLEAN, exits : BOOLEAN, kill_raises : BOOLEAN]

\* terminate / wait / kill: wait is not called when terminate has raised,
\* kill is not called when the process has exited in time; an answer that
\* is not asked for is left FALSE
TerminateEnv ==
  { e \in StopEnv : (e.term_raises => ~e.exits) /\ (e.exits => ~e.kill_raises) }

\* send_signal or terminate / wait / kill: wait is called in any case
SignalEnv == { e \in StopEnv : e.exits => ~e.kill_raises }

NoStopEnv == [term_raises |-> FALSE, exits |-> TRUE, kill_raises |-> FALSE]

StopEnvOf(ps, p, envs) == IF IsRunning(ps, p) THEN envs ELSE {NoStopEnv}

\* an exited child: nothing of it is left but its entry
Gone == [kind |-> "none", out |-> NoPath, alive |-> FALSE]

Exited(ps, p) == [ps EXCEPT ![p] = Gone]

\* A stop that gives up after the timeout: the kill is left out
TerminateWaitNoKill(ps, p, env) ==
  LET running == ps[p].alive
      raised  == running /\ (env.term_raises \/ ~env.exits)
  IN IF ~raised THEN [procs |-> Exited(ps, p), outcome |-> "graceful"]
     ELSE [procs |-> ps, outcome |-> "forced"]

\* try: proc.terminate(); proc.wait(timeout)
\* except Exception:
\*     try: proc.kill()
\*     except Exception: pass
\* On a child that has already exited terminate() and kill() do nothing and
\* wait() returns at once.
TerminateWaitKill(ps, p, env) ==
  LET running == ps[p].alive
      raised  == running /\ (env.term_raises \/ ~env.exits)
  IN IF ~raised THEN [procs |-> Exited(ps, p), outcome |-> "graceful"]
     ELSE IF ~env.kill_raises
          THEN [procs |-> Exited(ps, p), outcome |-> "forced"]
          ELSE [procs |-> ps, outcome |-> "failed"]

\* try: terminate() / send_signal(CTRL_BREAK_EVENT)   except Exception: pass
\* try: wait(timeout=5)
\* except Exception:
\*     try: kill()   except Exception: pass
SignalWaitKill(ps, p, env) ==
  LET running == ps[p].alive
      timeout == running /\ ~env.exits
  IN IF ~timeout THEN [procs |-> Exited(ps, p), outcome |-> "graceful"]
     ELSE IF ~env.kill_raises
          THEN [procs |-> Exited(ps, p), outcome |-> "forced"]
          ELSE [procs |-> ps, outcome |-> "failed"]

----------------------------------------------------------------------------
\* History of handler calls

\* `last` says what the handler call that produced the current state did: the
\* handler, the path it took (which names the message shown to the operator),
\* whether the key it extracted was non-empty, whether the call before it was
\* a call of the same handler that started something or was a stop (so that
\* this call is the second of a pair), the process it spawned, the stops it
\* made as <<process, outcome>> pairs, the result of the play() call it made
\* (0 when it made none) and, for a record toggle that arms libVLC recording,
\* the player state and whether stream recording was idle before it.
NoOp == [op |-> "none", res |-> "none", key |-> FALSE, again |-> FALSE,
         spawned |-> None, stops |-> {}, play_res |-> 0,
         pre_player |-> "stopped", pre_idle |-> TRUE]

Did(op, res, key, spawned, stops, play_res) ==
  [op |-> op, res |-> res, key |-> key,
   again |-> (last.op = op /\ last.res \in {"spawned", "armed", "done"}),
   spawned |-> spawned, stops |-> stops, play_res |-> play_res,
   pre_player |-> IF res = "armed" THEN player ELSE "stopped",
   pre_idle |-> IF res = "armed" THEN ~recording /\ ffmpeg_rec_proc = None
                ELSE TRUE]

Log(entry) == last' = entry

\* A step of the environment keeps `last` when the call started something
\* that the next call can end.
Kept(entry) ==
  IF entry.res \in {"armed", "spawned"}
  THEN [entry EXCEPT !.again = FALSE]
  ELSE NoOp

EnvStep == last' = Kept(last)

----------------------------------------------------------------------------
\* Initial state: DRMMaster.__init__ (l.25-54), on some operating system

Init ==
  /\ app = "running"
  /\ system \in RunSystems
  /\ player = "stopped"
  /\ media_sout = NoPath
  /\ recording = FALSE
  /\ record_path = NoPath
  /\ screen_rec_process = None
  /\ ffplay_proc = None
  /\ ffmpeg_rec_proc = None
  /\ record_btn = "Record"
  /\ screen_rec_btn = "Screen Rec"
  /\ procs = <<>>
  /\ last = NoOp

----------------------------------------------------------------------------
\* libVLC

\* A check that takes a paused player for a playing one
is_playing_or_paused == player # "stopped"

\* player.is_playing()
is_playing == player = "playing"

\* player.pause(): toggles pause; no effect when nothing is being played
Paused(st) == CASE st = "playing" -> "paused"
                [] st = "paused"  -> "playing"
                [] OTHER          -> st

\* A player that is taken to play whatever play() returned
PlayedWhatever(play_res) == "playing"

\* player.set_media(media) releases the running input; player.play() then
\* starts the new media and returns 0, or returns -1 and nothing plays
Played(play_res) == IF play_res = -1 THEN "stopped" ELSE "playing"

\* the sink that is open once play() has returned play_res on a media with
\* sink sout: a player that is not playing writes no file
Sink(play_res, sout) == IF play_res = -1 THEN NoPath ELSE sout

PlayResults == {0, -1}

\* The inputs a handler draws only on the path that reads them: the file
\* dialog's result when the dialog is shown, whether Popen succeeds when a
\* spawn is tried, the result of play() when the player is restarted
Asked(shown) == IF shown THEN DialogResults ELSE {NoPath}
Tried(tried) == IF tried THEN BOOLEAN ELSE {FALSE}
Restarted(restarted) == IF restarted THEN PlayResults ELSE {0}

----------------------------------------------------------------------------
\* on_play (l.150-198)
\*   kidkey_text : self.kidkey_edit.text(), whatever the operator left there
\*   found     : shutil_which("ffplay") is not None
\*   spawn_ok  : subprocess.Popen does not raise
\*   play_res  : the result of player.play()

\* A play request that drops the playback handle when ffplay is not found
on_play_external_drops_handle(key, found, spawn_ok) ==
  /\ UNCHANGED <<player, media_sout, recording, record_path,
                 screen_rec_process, ffmpeg_rec_proc,
                 record_btn, screen_rec_btn>>
  /\ IF ~found
     THEN /\ ffplay_proc' = None
          /\ UNCHANGED <<procs>>
          /\ Log(Did("on_play", "no_ffplay", key # <<>>, None, {}, 0))
     ELSE IF ffplay_proc # None
     THEN /\ UNCHANGED <<ffplay_proc, procs>>
          /\ Log(Did("on_play", "refused", key # <<>>, None, {}, 0))
     ELSE IF spawn_ok
     THEN /\ procs' = Popen(procs, "Playback", NoPath)
          /\ ffplay_proc' = Len(procs) + 1
          /\ Log(Did("on_play", "spawned", key # <<>>, Len(procs) + 1, {},
                     0))
     ELSE /\ ffplay_proc' = None
          /\ UNCHANGED <<procs>>
          /\ Log(Did("on_play", "spawn_error", key # <<>>, None, {}, 0))

on_play_external(key, found, spawn_ok) ==
  /\ UNCHANGED <<player, media_sout, recording, record_path,
                 screen_rec_process, ffmpeg_rec_proc,
                 record_btn, screen_rec_btn>>
  /\ IF ~found
     THEN /\ UNCHANGED <<ffplay_proc, procs>>
          /\ Log(Did("on_play", "no_ffplay", key # <<>>, None, {}, 0))
     ELSE IF ffplay_proc # None
     THEN /\ UNCHANGED <<ffplay_proc, procs>>
          /\ Log(Did("on_play", "refused", key # <<>>, None, {}, 0))
     ELSE IF spawn_ok
     THEN /\ procs' = Popen(procs, "Playback", NoPath)
          /\ ffplay_proc' = Len(procs) + 1
          /\ Log(Did("on_play", "spawned", key # <<>>, Len(procs) + 1, {},
                     0))
     ELSE /\ ffplay_proc' = None
          /\ UNCHANGED <<procs>>
          /\ Log(Did("on_play", "spawn_error", key # <<>>, None, {}, 0))

on_play_libvlc(key, play_res) ==
  /\ UNCHANGED <<recording, record_path, screen_rec_process,
                 ffplay_proc, ffmpeg_rec_proc, record_btn, screen_rec_btn,
                 procs>>
  /\ media_sout' = Sink(play_res, IF recording /\ record_path # NoPath
                                   THEN record_path ELSE NoPath)
  /\ player' = Played(play_res)
  /\ IF play_res = -1
     THEN Log(Did("on_play", "play_error", key # <<>>, None, {}, play_res))
     ELSE Log(Did("on_play", "playing", key # <<>>, None, {}, play_res))

on_play ==
  /\ app = "running"
  /\ \E kidkey_text \in KidKeyTexts :
       LET kidkey == Strip(kidkey_text)
           key    == extract_key_after_colon(kidkey)
       IN IF key # <<>>
          THEN \E found \in BOOLEAN :
               \E spawn_ok \in Tried(found /\ ffplay_proc = None) :
                 /\ spawn_ok => Len(procs) < MaxProcs
                 /\ on_play_external(key, found, spawn_ok)
          ELSE \E play_res \in PlayResults : on_play_libvlc(key, play_res)
  /\ UNCHANGED <<app, system>>

----------------------------------------------------------------------------
\* on_pause (l.200-206)

\* A pause that tells the operator it is unavailable and pauses all the same
on_pause_forwards_anyway ==
  /\ app = "running"
  /\ player' = Paused(player)
  /\ IF ffplay_proc # None
     THEN Log(Did("on_pause", "refused", FALSE, None, {}, 0))
     ELSE Log(Did("on_pause", "forwarded", FALSE, None, {}, 0))
  /\ UNCHANGED <<app, system, media_sout,
                 recording, record_path, screen_rec_process,
                 ffplay_proc, ffmpeg_rec_proc, record_btn, screen_rec_btn,
                 procs>>

on_pause ==
  /\ app = "running"
  /\ IF ffplay_proc # None
     THEN /\ UNCHANGED player
          /\ Log(Did("on_pause", "refused", FALSE, None, {}, 0))
     ELSE /\ player' = Paused(player)
          /\ Log(Did("on_pause", "forwarded", FALSE, None, {}, 0))
  /\ UNCHANGED <<app, system, media_sout,
                 recording, record_path, screen_rec_process,
                 ffplay_proc, ffmpeg_rec_proc, record_btn, screen_rec_btn,
                 procs>>

----------------------------------------------------------------------------
\* A stop of the screen recorder that keeps the handle of the stopped process
stop_ffmpeg_screenrec_keeps_handle(ps, env) ==
  IF screen_rec_process # None
  THEN LET r == SignalWaitKill(ps, screen_rec_process, env)
       IN [procs |-> r.procs,
           stops |-> {<<screen_rec_process, r.outcome>>},
           screen_rec_process |-> screen_rec_process,
           screen_rec_btn |-> "Screen Rec"]
  ELSE [procs |-> ps, stops |-> {},
        screen_rec_process |-> screen_rec_process,
        screen_rec_btn |-> screen_rec_btn]

\* _stop_ffmpeg_screenrec (l.385-403): the process table and the stop made,
\* given the outcomes env; the caller assigns the fields

_stop_ffmpeg_screenrec(ps, env) ==
  IF screen_rec_process # None
  THEN LET r == SignalWaitKill(ps, screen_rec_process, env)
       IN [procs |-> r.procs,
           stops |-> {<<screen_rec_process, r.outcome>>},
           screen_rec_process |-> None,
           screen_rec_btn |-> "Screen Rec"]
  ELSE [procs |-> ps, stops |-> {},
        screen_rec_process |-> screen_rec_process,
        screen_rec_btn |-> screen_rec_btn]

----------------------------------------------------------------------------
\* A stop that terminates ffplay but keeps its handle in self.ffplay_proc
on_stop_body_keeps_ffplay(e1, e2, e3) ==
  LET r1 == IF ffplay_proc # None
            THEN TerminateWaitKill(procs, ffplay_proc, e1)
            ELSE [procs |-> procs, outcome |-> "none"]
      s1 == IF ffplay_proc # None THEN {<<ffplay_proc, r1.outcome>>} ELSE {}
      r2 == IF ffmpeg_rec_proc # None
            THEN TerminateWaitKill(r1.procs, ffmpeg_rec_proc, e2)
            ELSE [procs |-> r1.procs, outcome |-> "none"]
      s2 == IF ffmpeg_rec_proc # None THEN {<<ffmpeg_rec_proc, r2.outcome>>}
            ELSE {}
      r3 == _stop_ffmpeg_screenrec(r2.procs, e3)
  IN /\ player' = "stopped"
     /\ ffplay_proc' = ffplay_proc
     /\ ffmpeg_rec_proc' = None
     /\ screen_rec_process' = r3.screen_rec_process
     /\ screen_rec_btn' = r3.screen_rec_btn
     /\ procs' = r3.procs
     /\ recording' = FALSE
     /\ record_btn' = IF recording THEN "Record" ELSE record_btn
     /\ media_sout' = NoPath
     /\ UNCHANGED record_path
     /\ Log(Did("on_stop", "done", FALSE, None, s1 \cup s2 \cup r3.stops, 0))

\* on_stop (l.208-249)
\*   e1, e2, e3 : outcomes of stopping ffplay, ffmpeg and the screen recorder

on_stop_body(e1, e2, e3) ==
  LET r1 == IF ffplay_proc # None
            THEN TerminateWaitKill(procs, ffplay_proc, e1)
            ELSE [procs |-> procs, outcome |-> "none"]
      s1 == IF ffplay_proc # None THEN {<<ffplay_proc, r1.outcome>>} ELSE {}
      r2 == IF ffmpeg_rec_proc # None
            THEN TerminateWaitKill(r1.procs, ffmpeg_rec_proc, e2)
            ELSE [procs |-> r1.procs, outcome |-> "none"]
      s2 == IF ffmpeg_rec_proc # None THEN {<<ffmpeg_rec_proc, r2.outcome>>}
            ELSE {}
      r3 == _stop_ffmpeg_screenrec(r2.procs, e3)
  IN /\ player' = "stopped"
     /\ ffplay_proc' = None
     /\ ffmpeg_rec_proc' = None
     /\ screen_rec_process' = r3.screen_rec_process
     /\ screen_rec_btn' = r3.screen_rec_btn
     /\ procs' = r3.procs
     /\ recording' = FALSE
     /\ record_btn' = IF recording THEN "Record" ELSE record_btn
     /\ media_sout' = NoPath
     /\ UNCHANGED record_path
     /\ Log(Did("on_stop", "done", FALSE, None, s1 \cup s2 \cup r3.stops, 0))

on_stop ==
  /\ app = "running"
  /\ \E e1 \in StopEnvOf(procs, ffplay_proc, TerminateEnv),
        e2 \in StopEnvOf(procs, ffmpeg_rec_proc, TerminateEnv),
        e3 \in StopEnvOf(procs, screen_rec_process, SignalEnv) :
       on_stop_body(e1, e2, e3)
  /\ UNCHANGED <<app, system>>

----------------------------------------------------------------------------
\* on_record (l.251-347)
\*   url_text, kidkey_text : the texts of the two fields
\*   found    : shutil_which("ffmpeg") is not None
\*   fname    : what the save-file dialog returns
\*   spawn_ok : subprocess.Popen does not raise
\*   env      : outcomes of stopping the running ffmpeg
\*   play_res : the result of player.play()

\* A record toggle that does not validate the URL
on_record_ffmpeg_unvalidated(url, key, found, fname, spawn_ok, env) ==
  /\ UNCHANGED <<player, media_sout, recording, screen_rec_process,
                 ffplay_proc, screen_rec_btn>>
  /\ IF ~found
     THEN /\ UNCHANGED <<record_path, ffmpeg_rec_proc, record_btn, procs>>
          /\ Log(Did("on_record", "no_ffmpeg", key # <<>>, None, {}, 0))
     ELSE IF ffmpeg_rec_proc # None
     THEN LET r == TerminateWaitKill(procs, ffmpeg_rec_proc, env)
          IN /\ procs' = r.procs
             /\ ffmpeg_rec_proc' = None
             /\ record_btn' = "Record"
             /\ UNCHANGED record_path
             /\ Log(Did("on_record", "stopped", key # <<>>, None,
                        {<<ffmpeg_rec_proc, r.outcome>>}, 0))
     ELSE IF fname = NoPath
     THEN /\ UNCHANGED <<record_path, ffmpeg_rec_proc, record_btn, procs>>
          /\ Log(Did("on_record", "cancelled_ffmpeg", key # <<>>, None, {},
                     0))
     ELSE IF spawn_ok
     THEN /\ record_path' = WithSuffix(fname, ".ts")
          /\ procs' = Popen(procs, "StreamRecording", WithSuffix(fname, ".ts"))
          /\ ffmpeg_rec_proc' = Len(procs) + 1
          /\ record_btn' = "Stop Rec"
          /\ Log(Did("on_record", "spawned", key # <<>>, Len(procs) + 1,
                     {}, 0))
     ELSE /\ record_path' = WithSuffix(fname, ".ts")
          /\ ffmpeg_rec_proc' = None
          /\ UNCHANGED <<record_btn, procs>>
          /\ Log(Did("on_record", "spawn_error", key # <<>>, None, {}, 0))

on_record_ffmpeg(url, key, found, fname, spawn_ok, env) ==
  /\ UNCHANGED <<player, media_sout, recording, screen_rec_process,
                 ffplay_proc, screen_rec_btn>>
  /\ IF ~found
     THEN /\ UNCHANGED <<record_path, ffmpeg_rec_proc, record_btn, procs>>
          /\ Log(Did("on_record", "no_ffmpeg", key # <<>>, None, {}, 0))
     ELSE IF ~validate_mpd(url)
     THEN /\ UNCHANGED <<record_path, ffmpeg_rec_proc, record_btn, procs>>
          /\ Log(Did("on_record", "invalid_url", key # <<>>, None, {}, 0))
     ELSE IF ffmpeg_rec_proc # None
     THEN LET r == TerminateWaitKill(procs, ffmpeg_rec_proc, env)
          IN /\ procs' = r.procs
             /\ ffmpeg_rec_proc' = None
             /\ record_btn' = "Record"
             /\ UNCHANGED record_path
             /\ Log(Did("on_record", "stopped", key # <<>>, None,
                        {<<ffmpeg_rec_proc, r.outcome>>}, 0))
     ELSE IF fname = NoPath
     THEN /\ UNCHANGED <<record_path, ffmpeg_rec_proc, record_btn, procs>>
          /\ Log(Did("on_record", "cancelled_ffmpeg", key # <<>>, None, {},
                     0))
     ELSE IF spawn_ok
     THEN /\ record_path' = WithSuffix(fname, ".ts")
          /\ procs' = Popen(procs, "StreamRecording", WithSuffix(fname, ".ts"))
          /\ ffmpeg_rec_proc' = Len(procs) + 1
          /\ record_btn' = "Stop Rec"
          /\ Log(Did("on_record", "spawned", key # <<>>, Len(procs) + 1,
                     {}, 0))
     ELSE /\ record_path' = WithSuffix(fname, ".ts")
          /\ ffmpeg_rec_proc' = None
          /\ UNCHANGED <<record_btn, procs>>
          /\ Log(Did("on_record", "spawn_error", key # <<>>, None, {}, 0))

on_record_libvlc(key, fname, play_res) ==
  /\ UNCHANGED <<screen_rec_process, ffplay_proc,
                 ffmpeg_rec_proc, screen_rec_btn, procs>>
  /\ IF ~recording
     THEN IF fname = NoPath
          THEN /\ UNCHANGED <<player, media_sout, recording,
                              record_path, record_btn>>
               /\ Log(Did("on_record", "cancelled", key # <<>>, None, {}, 0))
          ELSE /\ record_path' = WithSuffix(fname, ".mp4")
               /\ recording' = TRUE
               /\ record_btn' = "Stop Rec"
               /\ IF is_playing
                  THEN /\ media_sout' = Sink(play_res, WithSuffix(fname, ".mp4"))
                       /\ player' = Played(play_res)
                  ELSE /\ UNCHANGED <<player, media_sout>>
               /\ Log(Did("on_record", "armed", key # <<>>, None, {},
                          IF is_playing THEN play_res ELSE 0))
     ELSE /\ recording' = FALSE
          /\ record_btn' = "Record"
          /\ UNCHANGED <<record_path>>
          /\ IF is_playing
             THEN /\ media_sout' = Sink(play_res, NoPath)
                  /\ player' = Played(play_res)
             ELSE /\ UNCHANGED <<player, media_sout>>
          /\ Log(Did("on_record", "disarmed", key # <<>>, None, {},
                     IF is_playing THEN play_res ELSE 0))

on_record ==
  /\ app = "running"
  /\ \E kidkey_text \in KidKeyTexts :
       LET key == extract_key_after_colon(Strip(kidkey_text))
       IN IF key # <<>>
          THEN \E url_text \in UrlTexts, found \in BOOLEAN :
               \E fname \in Asked(found /\ validate_mpd(Strip(url_text))
                                    /\ ffmpeg_rec_proc = None) :
               \E spawn_ok \in Tried(fname # NoPath),
                  env \in IF found /\ validate_mpd(Strip(url_text))
                          THEN StopEnvOf(procs, ffmpeg_rec_proc, TerminateEnv)
                          ELSE {NoStopEnv} :
                 /\ spawn_ok => Len(procs) < MaxProcs
                 /\ on_record_ffmpeg(Strip(url_text), key, found, fname,
                                     spawn_ok, env)
          ELSE \E fname \in Asked(~recording),
                  play_res \in Restarted(is_playing) :
                 on_record_libvlc(key, fname, play_res)
  /\ UNCHANGED <<app, system>>

----------------------------------------------------------------------------
\* _build_ffmpeg_cmd_for_region (l.419-476)

Digits == <<"0", "1", "2", "3", "4", "5", "6", "7", "8", "9">>

\* str(n) for a natural number
RECURSIVE StrNat(_)
StrNat(n) ==
  IF n < 10 THEN <<Digits[n + 1]>>
  ELSE StrNat(n \div 10) \o <<Digits[(n % 10) + 1]>>

\* A rendering of an integer that drops its sign
StrUnsigned(n) == IF n < 0 THEN StrNat(-n) ELSE StrNat(n)

\* str(n) for an integer
Str(n) == IF n < 0 THEN <<"-">> \o StrNat(-n) ELSE StrNat(n)

\* os.environ.get("DISPLAY", ":0.0") with DISPLAY unset
Display == <<":", "0", ".", "0">>

NoCmd == <<>>

\* The argument list for sys, or None (which `if not cmd` treats as the empty
\* list); an argument is a literal or a text built from the numbers
_build_ffmpeg_cmd_for_region(sys, x, y, w, h, framerate, outpath) ==
  LET size == Str(w) \o <<"x">> \o Str(h)
      tail == <<"-pix_fmt", "yuv420p", "-c:v", "libx264", "-preset", "fast",
                "-crf", "23", outpath>>
  IN CASE sys = "Windows" ->
            <<"ffmpeg", "-y", "-f", "gdigrab", "-framerate", Str(framerate),
              "-offset_x", Str(x), "-offset_y", Str(y), "-video_size", size,
              "-i", "desktop">> \o tail
       [] sys = "Linux" ->
            <<"ffmpeg", "-y", "-f", "x11grab", "-framerate", Str(framerate),
              "-video_size", size,
              "-i", Display \o <<"+">> \o Str(x) \o <<",">> \o Str(y)>> \o tail
       [] sys = "Darwin" ->
            <<"ffmpeg", "-y", "-f", "avfoundation", "-framerate",
              Str(framerate), "-i", "1",
              "-vf", <<"c", "r", "o", "p", "=">> \o Str(w) \o <<":">>
                     \o Str(h) \o <<":">> \o Str(x) \o <<":">> \o Str(y)>>
            \o tail
       [] OTHER -> NoCmd

----------------------------------------------------------------------------
\* on_screen_record (l.350-383)
\*   fname    : what the save-file dialog returns
\*   geo      : _get_video_frame_geometry() (l.405-417), None when it raises
\*   spawn_ok : subprocess.Popen does not raise
\*   env      : outcomes of stopping the running screen recorder

NoGeometry == <<>>

on_screen_record_start(fname, geo, spawn_ok) ==
  IF fname = NoPath
  THEN /\ UNCHANGED <<screen_rec_process, screen_rec_btn,
                      procs>>
       /\ Log(Did("on_screen_record", "cancelled", FALSE, None, {}, 0))
  ELSE /\ IF geo = NoGeometry
          THEN /\ UNCHANGED <<screen_rec_process, screen_rec_btn, procs>>
               /\ Log(Did("on_screen_record", "no_geometry", FALSE, None,
                          {}, 0))
          ELSE LET cmd == _build_ffmpeg_cmd_for_region(system, geo[1], geo[2],
                            geo[3], geo[4], screen_rec_framerate,
                            WithSuffix(fname, ".mp4"))
               IN IF cmd = NoCmd
                  THEN /\ UNCHANGED <<screen_rec_process, screen_rec_btn,
                                      procs>>
                       /\ Log(Did("on_screen_record", "unsupported_os", FALSE,
                                  None, {}, 0))
                  ELSE IF spawn_ok
                  THEN /\ procs' = Popen(procs, "ScreenRecording",
                                         WithSuffix(fname, ".mp4"))
                       /\ screen_rec_process' = Len(procs) + 1
                       /\ screen_rec_btn' = "Stop ScreenRec"
                       /\ Log(Did("on_screen_record", "spawned", FALSE,
                                  Len(procs) + 1, {}, 0))
                  ELSE /\ screen_rec_process' = None
                       /\ UNCHANGED <<screen_rec_btn, procs>>
                       /\ Log(Did("on_screen_record", "spawn_error", FALSE,
                                  None, {}, 0))

on_screen_record_stop(env) ==
  LET r == _stop_ffmpeg_screenrec(procs, env)
  IN /\ procs' = r.procs
     /\ screen_rec_process' = r.screen_rec_process
     /\ screen_rec_btn' = r.screen_rec_btn
     /\ Log(Did("on_screen_record", "stopped", FALSE, None, r.stops, 0))

on_screen_record ==
  /\ app = "running"
  /\ \E fname \in Asked(screen_rec_process = None) :
     \E geo \in IF fname # NoPath
                THEN Geometries \cup {NoGeometry} ELSE {NoGeometry} :
     \E spawn_ok \in Tried(geo # NoGeometry),
        env \in StopEnvOf(procs, screen_rec_process, SignalEnv) :
       /\ spawn_ok => Len(procs) < MaxProcs
       /\ IF screen_rec_process = None
          THEN on_screen_record_start(fname, geo, spawn_ok)
          ELSE on_screen_record_stop(env)
  /\ UNCHANGED <<app, system, player, media_sout,
                 recording, record_path, ffplay_proc, ffmpeg_rec_proc,
                 record_btn>>

----------------------------------------------------------------------------
\* The operator and the environment

\* a child process exits on its own (its window is closed, its input ends)
ChildExits ==
  /\ \E p \in Pids : procs[p].alive /\ procs' = Exited(procs, p)
  /\ EnvStep
  /\ UNCHANGED <<app, system, selfVars>>

\* the main window is closed: app.exec() returns and main calls sys.exit
\* (l.540-544); eventFilter (l.517-518) passes every event on and the class
\* has no closeEvent, so no handler runs
\* The window object and the in-process player end with the process; the
\* children are not signalled and stay in the process table as they are.
CloseWindow ==
  /\ app = "running"
  /\ app' = "exited"
  /\ player' = "stopped" /\ media_sout' = NoPath
  /\ recording' = FALSE /\ record_path' = NoPath
  /\ screen_rec_process' = None 
  /\ ffplay_proc' = None /\ ffmpeg_rec_proc' = None
  /\ record_btn' = "Record" /\ screen_rec_btn' = "Screen Rec"
  /\ last' = [NoOp EXCEPT !.op = "exit"]
  /\ UNCHANGED <<system, procs>>

----------------------------------------------------------------------------
Next ==
  \/ on_play
  \/ on_pause
  \/ on_stop
  \/ on_record
  \/ on_screen_record
  \/ ChildExits
  \/ CloseWindow

Spec == Init /\ [][Next]_vars

----------------------------------------------------------------------------
\* The states of the playback arbiter and of the two recording sessions

Stopped == player = "stopped" /\ ffplay_proc = None
PlayingInProcess == player = "playing" /\ ffplay_proc = None
PlayingExternal == player = "stopped" /\ ffplay_proc # None
StreamIdle == ~recording /\ ffmpeg_rec_proc = None
ScreenIdle == screen_rec_process = None
NoChildRunning == \A p \in Pids : ~procs[p].alive
Slots == {ffplay_proc, ffmpeg_rec_proc, screen_rec_process}

\* the step is a call of the handler op (a step of the environment only
\* trims the record of the last call)
Called(op) == last'.op = op /\ last' # Kept(last)

\* the step started a process of one of the kinds
Spawns(kinds) ==
  /\ Len(procs') = Len(procs) + 1
  /\ procs'[Len(procs')].kind \in kinds

----------------------------------------------------------------------------
\* C1: in every reachable state at most one external process of each kind
\* (Playback, StreamRecording, ScreenRecording) is running.
C1_OneLiveProcessPerKind ==
  \A kind \in Kinds : Cardinality(Live(kind)) <= 1

\* C2: a play request with a key made while a playback process is recorded
\* spawns nothing, keeps the recorded process, and exactly one playback
\* process is running.
C2_SecondStartRefused ==
  [][(Called("on_play") /\ last'.key /\ ffplay_proc # None)
       => /\ procs' = procs
          /\ ffplay_proc' = ffplay_proc
          /\ Live("Playback") = {ffplay_proc}]_vars

\* C3: a process whose stop returned as graceful or as forced is not running
\* and is recorded in no slot.
C3_StoppedIsNotRunning ==
  \A s \in last.stops :
    s[2] \in {"graceful", "forced"}
      => ~IsRunning(procs, s[1]) /\ s[1] \notin Slots

\* one call has stopped one process gracefully and another one by force
C3_Witness ==
  \E s1 \in last.stops, s2 \in last.stops :
    s1[2] = "graceful" /\ s2[2] = "forced"

\* C4: after on_stop has returned, playback is Stopped, both recording
\* sessions are Idle and no child process is running.
C4_StopLeavesNothingRunning ==
  last.op = "on_stop"
    => Stopped /\ StreamIdle /\ ScreenIdle /\ NoChildRunning

\* C5: the in-process pipeline is never playing while an external playback
\* process is recorded.
C5_PipelinesExclusive ==
  ~(player = "playing" /\ ffplay_proc # None)

\* C6 as claimed: a play request from Stopped with the binary available ends
\* in PlayingExternal with one new Playback process when the key is not
\* empty, and in PlayingInProcess with nothing spawned when it is empty.
C6_KeyAloneDecides ==
  [][(Called("on_play") /\ Stopped /\ last'.res # "no_ffplay")
       => IF last'.key
          THEN PlayingExternal' /\ Spawns({"Playback"})
               /\ ffplay_proc' = Len(procs')
          ELSE PlayingInProcess' /\ procs' = procs]_vars

\* C6: a play request from Stopped with the binary available takes the
\* pipeline the key names and never the other one: with a key it ends in
\* PlayingExternal with one new Playback process, or, when the spawn fails,
\* stays Stopped with nothing spawned; with no key it ends in
\* PlayingInProcess, or, when play() fails, stays Stopped; nothing is
\* spawned.  A Playback or StreamRecording process is only ever started by
\* a request that carries a key.
C6_KeyDecidesPipeline ==
  [][/\ (Called("on_play") /\ Stopped /\ last'.res # "no_ffplay")
          => IF last'.key
             THEN \/ /\ last'.res = "spawned"
                     /\ PlayingExternal' /\ Spawns({"Playback"})
                     /\ ffplay_proc' = Len(procs')
                  \/ /\ last'.res = "spawn_error"
                     /\ Stopped' /\ procs' = procs
             ELSE /\ procs' = procs
                  /\ \/ last'.res = "playing" /\ PlayingInProcess'
                     \/ last'.res = "play_error" /\ Stopped'
     /\ Spawns({"Playback", "StreamRecording"}) => last'.key]_vars

\* a play request with a key has started the external player from Stopped
C6_Witness ==
  /\ last.op = "on_play" /\ last.res = "spawned" /\ last.key
  /\ PlayingExternal
  /\ Live("Playback") = {ffplay_proc}

\* C7: on_stop called with playback Stopped and both sessions Idle signals
\* no process and changes nothing; a second on_stop right after a first one
\* signals no process and changes nothing.
C7_StopIdempotent ==
  [][(Called("on_stop")
        /\ \/ Stopped /\ StreamIdle /\ ScreenIdle
           \/ last.op = "on_stop")
       => last'.stops = {} /\ UNCHANGED <<selfVars, procs>>]_vars

\* on_stop has run twice in a row after a process had been started
C7_Witness ==
  /\ last.op = "on_stop" /\ last.again /\ last.stops = {}
  /\ \E p \in Pids : procs[p] = Gone

\* C8 as claimed: record on then record off with no key leaves the player
\* as it was before (playing plainly if it was playing) and the session Idle.
C8_RecordRoundTrip ==
  [][(last.op = "on_record" /\ last.res = "armed" /\ ~last.key
        /\ Called("on_record") /\ ~last'.key)
       => /\ last'.res = "disarmed"
          /\ ~recording'
          /\ player' = last.pre_player
          /\ player' = "playing" => media_sout' = NoPath]_vars

\* C8: record on then record off with no key leaves the recording flag
\* cleared and the external recorder untouched; the player is as it was
\* before (playing plainly if it was playing) when every play() of the two
\* restarts succeeded, and is stopped when one of them failed.
C8_RecordRoundTripIfRestarted ==
  [][(last.op = "on_record" /\ last.res = "armed" /\ ~last.key
        /\ Called("on_record") /\ ~last'.key)
       => /\ last'.res = "disarmed"
          /\ ~recording'
          /\ ffmpeg_rec_proc' = ffmpeg_rec_proc /\ procs' = procs
          /\ last.pre_idle => StreamIdle'
          /\ IF last.play_res = 0 /\ last'.play_res = 0
             THEN /\ player' = last.pre_player
                  /\ player' = "playing" => media_sout' = NoPath
             ELSE player' = "stopped"]_vars

\* recording was switched on and off again while the player was playing
C8_Witness ==
  /\ last.op = "on_record" /\ last.res = "disarmed" /\ last.again
  /\ ~last.key /\ last.play_res = 0
  /\ player = "playing" /\ media_sout = NoPath /\ StreamIdle

\* C9: a screen-record toggle that starts a recorder spawns exactly one
\* ScreenRecording process and stops none; the toggle that follows it spawns
\* none, stops exactly that process and leaves the session Idle.
C9_ToggleTwice ==
  [][/\ (Called("on_screen_record") /\ last'.res = "spawned")
          => /\ Spawns({"ScreenRecording"})
             /\ last'.spawned = Len(procs')
             /\ screen_rec_process' = last'.spawned
             /\ last'.stops = {}
     /\ (last.op = "on_screen_record" /\ last.res = "spawned"
           /\ Called("on_screen_record"))
          => /\ last'.res = "stopped"
             /\ \E o \in {"graceful", "forced", "failed"} :
                  last'.stops = {<<last.spawned, o>>}
             /\ Len(procs') = Len(procs)
             /\ ScreenIdle' /\ screen_rec_btn' = "Screen Rec"]_vars

\* the screen recorder has been started and stopped by two toggles in a row
C9_Witness ==
  /\ last.op = "on_screen_record" /\ last.res = "stopped" /\ last.again
  /\ system = "Linux"
  /\ \E s \in last.stops : procs[s[1]] = Gone
  /\ ScreenIdle

\* C10: once the application has exited no child process is running.
C10_NoOrphans ==
  app = "exited" => NoChildRunning

----------------------------------------------------------------------------
\* C11: once the recorded playback process has exited on its own, a play
\* request with a key (ffplay available) is not refused but tries to spawn a
\* new process, and a pause request is forwarded to the in-process player.
C11_SelfExitReleasesRecord ==
  [][(ffplay_proc # None /\ ~IsRunning(procs, ffplay_proc))
       => /\ (Called("on_play") /\ last'.key /\ last'.res # "no_ffplay")
               => last'.res \in {"spawned", "spawn_error"}
          /\ Called("on_pause") => last'.res = "forwarded"]_vars

\* C12: a play request with a key that finds no ffplay, and a record toggle
\* with a key that finds no ffmpeg, spawn and stop no process and leave
\* every field of the window (player, slots, recording flag, paths, button
\* labels) and the process table as they were.
C12_ProbeFailureMutatesNothing ==
  [][(\/ Called("on_play") /\ last'.res = "no_ffplay"
      \/ Called("on_record") /\ last'.res = "no_ffmpeg")
       => /\ UNCHANGED <<selfVars, procs>>
          /\ last'.key /\ last'.stops = {} /\ last'.spawned = None]_vars

\* ffplay was not found by a play request made while external playback and
\* a screen recording were active
C12_Witness ==
  /\ last.op = "on_play" /\ last.res = "no_ffplay"
  /\ ffplay_proc # None /\ IsRunning(procs, ffplay_proc)
  /\ screen_rec_process # None

\* the paths on which a start fails
FailedPlayStart == Called("on_play") /\ last'.res = "spawn_error"
FailedRecordStart ==
  /\ Called("on_record")
  /\ last'.res \in {"cancelled", "cancelled_ffmpeg", "spawn_error"}
FailedScreenStart ==
  /\ Called("on_screen_record")
  /\ last'.res \in {"cancelled", "no_geometry", "unsupported_os",
                    "spawn_error"}

\* C13: a failed start leaves its own subsystem stopped / idle with no
\* process record, spawns nothing, and leaves the session state and the
\* process records of the other two subsystems unchanged.
C13_FailedStartFrame ==
  [][/\ FailedPlayStart
          => /\ Stopped'
             /\ UNCHANGED <<recording, ffmpeg_rec_proc, screen_rec_process,
                            procs>>
     /\ FailedRecordStart
          => /\ StreamIdle'
             /\ UNCHANGED <<player, ffplay_proc, screen_rec_process, procs>>
     /\ FailedScreenStart
          => /\ ScreenIdle'
             /\ UNCHANGED <<player, ffplay_proc, recording, ffmpeg_rec_proc,
                            procs>>]_vars

\* the part of C13 that holds: a failed start leaves the slot it was to
\* fill empty, spawns nothing, and changes nothing of the other subsystems
\* nor of the other pipeline of its own subsystem
C13_FailedStartChangesNothingElse ==
  [][/\ FailedPlayStart
          => /\ ffplay_proc' = None
             /\ UNCHANGED <<player, media_sout, recording, record_path,
                            ffmpeg_rec_proc, screen_rec_process, record_btn,
                            screen_rec_btn, procs>>
     /\ FailedRecordStart
          => /\ ffmpeg_rec_proc' = ffmpeg_rec_proc
             /\ last'.key => ffmpeg_rec_proc' = None
             /\ UNCHANGED <<player, media_sout, recording, ffplay_proc,
                            screen_rec_process, record_btn, screen_rec_btn,
                            procs>>
     /\ FailedScreenStart
          => /\ ScreenIdle'
             /\ UNCHANGED <<player, media_sout, recording, record_path,
                            ffplay_proc, ffmpeg_rec_proc, record_btn,
                            screen_rec_btn, procs>>]_vars

\* the keys the texts of the KID:KEY field give, the empty one left out
Keys ==
  { extract_key_after_colon(Strip(t)) : t \in KidKeyTexts } \ { <<>> }

\* the step is a record toggle with a key, ffmpeg found, started from Idle
\* with the given URL text, dialog result and spawn outcome
IdleKeyToggle(url_text, fname, spawn_ok) ==
  /\ StreamIdle /\ Called("on_record") /\ last'.key
  /\ \E key \in Keys :
       on_record_ffmpeg(Strip(url_text), key, TRUE, fname, spawn_ok,
                        NoStopEnv)

ManifestStyle(url_text) == Contains(Strip(url_text), <<".", "m", "p", "d">>)

C15_OneStreamRecordingSession ==
  ~(recording /\ ffmpeg_rec_proc # None)

\* C16: a record toggle made while an external stream-recording process is
\* recorded stops that process, releases its record and leaves the session
\* Idle with the record button reading "Record".
C16_ExternalToggleStops ==
  [][(ffmpeg_rec_proc # None /\ Called("on_record"))
       => /\ last'.res = "stopped"
          /\ \E o \in {"graceful", "forced"} :
               last'.stops = {<<ffmpeg_rec_proc, o>>}
          /\ ~IsRunning(procs', ffmpeg_rec_proc)
          /\ StreamIdle'
          /\ record_btn' = "Record"]_vars

\* the file the in-process pipeline is writing (output duplication), if any
InProcessSink == IF player # "stopped" THEN media_sout ELSE NoPath

\* the path every in-process recording is started with: the record dialog
\* of the libVLC branch; the external encoder is started with another one
InProcessStartPaths == { WithSuffix(f, ".mp4") : f \in FileNames }

\* C17: the path a running stream-recording encoder was started with is not
\* written by the in-process pipeline as well, the in-process recording
\* having been started with another path.
C17_SingleWriter ==
  \A p \in Live("StreamRecording") :
    procs[p].out \notin InProcessStartPaths => procs[p].out # InProcessSink

\* C18: a pause request made while an external playback process is recorded
\* is answered with the refusal and changes nothing (the in-process player
\* is neither paused nor resumed, no process record changes); a pause
\* request made with no external playback recorded is forwarded to the
\* in-process player and changes nothing else.
C18_PauseRefusedUnderExternal ==
  [][Called("on_pause")
       => /\ UNCHANGED <<media_sout, recording, record_path,
                         screen_rec_process, ffplay_proc, ffmpeg_rec_proc,
                         record_btn, screen_rec_btn, procs>>
          /\ IF ffplay_proc # None
             THEN last'.res = "refused" /\ player' = player
             ELSE /\ last'.res = "forwarded"
                  /\ player = "playing" => player' = "paused"
                  /\ player = "paused" => player' = "playing"
                  /\ player = "stopped" => player' = "stopped"]_vars

\* pause has been refused while ffplay was running and the in-process
\* player was playing as well
C18_Witness ==
  /\ last.op = "on_pause" /\ last.res = "refused"
  /\ IsRunning(procs, ffplay_proc)
  /\ player = "playing"

----------------------------------------------------------------------------
\* The two functions of the window that read no field, applied to inputs of
\* their own: `last` holds the call (its arguments) and then its result

\* longest text handed to extract_key_after_colon
MaxLen == 5

Chars == {"K", "E", ":", " "}

RECURSIVE TextsOfLen(_)
TextsOfLen(n) ==
  IF n = 0 THEN { <<>> }
  ELSE { Append(t, c) : t \in TextsOfLen(n - 1), c \in Chars }

Texts == UNION { TextsOfLen(n) : n \in 0..MaxLen }

\* corners of the video frame and its sizes, as mapToGlobal / width / height
\* can give them
Coords == {-1, 0, 30}
Sizes == {2, 640}
Framerates == {screen_rec_framerate, 30}
OutPaths == { WithSuffix(f, ".mp4") : f \in FileNames }

KeyCalls == [fn : {"extract_key_after_colon"}, kidkey : Texts]

CmdCalls ==
  [fn : {"_build_ffmpeg_cmd_for_region"}, sys : Systems, x : Coords,
   y : Coords, w : Sizes, h : Sizes, framerate : Framerates,
   outpath : OutPaths]

PureInit ==
  /\ app = "running"
  /\ system = "Linux"
  /\ player = "stopped"
  /\ media_sout = NoPath
  /\ recording = FALSE
  /\ record_path = NoPath
  /\ screen_rec_process = None
  /\ ffplay_proc = None
  /\ ffmpeg_rec_proc = None
  /\ record_btn = "Record"
  /\ screen_rec_btn = "Screen Rec"
  /\ procs = <<>>
  /\ last \in [call : KeyCalls \cup CmdCalls, done : {FALSE}]

ExtractKey ==
  /\ ~last.done
  /\ last.call.fn = "extract_key_after_colon"
  /\ last' = [call |-> last.call, done |-> TRUE,
              key |-> extract_key_after_colon(last.call.kidkey)]
  /\ UNCHANGED <<app, system, selfVars, procs>>

BuildCmd ==
  /\ ~last.done
  /\ last.call.fn = "_build_ffmpeg_cmd_for_region"
  /\ last' = [call |-> last.call, done |-> TRUE,
              cmd |-> _build_ffmpeg_cmd_for_region(last.call.sys,
                        last.call.x, last.call.y, last.call.w, last.call.h,
                        last.call.framerate, last.call.outpath)]
  /\ UNCHANGED <<app, system, selfVars, procs>>

PureNext == ExtractKey \/ BuildCmd

PureSpec == PureInit /\ [][PureNext]_vars

\* extract_key_after_colon has returned
KeyReturned ==
  last.done /\ last.call.fn = "extract_key_after_colon"

\* k is r without its leading and trailing spaces
IsTrimOf(k, r) ==
  /\ k = <<>> \/ (k[1] # " " /\ k[Len(k)] # " ")
  /\ \E a \in 0..Len(r) :
       /\ a + Len(k) <= Len(r)
       /\ SubSeq(r, a + 1, a + Len(k)) = k
       /\ \A i \in 1..a : r[i] = " "
       /\ \A i \in (a + Len(k) + 1)..Len(r) : r[i] = " "

\* C19: extract_key_after_colon returns the empty text for a text with no
\* colon, and otherwise the text after the first colon without its leading
\* and trailing spaces; K:E gives E and K:E:E gives E:E.
C19_KeyAfterFirstColon ==
  KeyReturned =>
    LET s == last.call.kidkey
        colons == { i \in 1..Len(s) : s[i] = ":" }
    IN /\ colons = {} => last.key = <<>>
       /\ colons # {} =>
            \E i \in colons :
              /\ \A j \in colons : i <= j
              /\ IsTrimOf(last.key, SubSeq(s, i + 1, Len(s)))
       /\ s = <<"K", ":", "E">> => last.key = <<"E">>
       /\ s = <<"K", ":", "E", ":", "E">> => last.key = <<"E", ":", "E">>

\* the key of a text with two colons and spaces around the key has been
\* extracted
C19_Witness ==
  /\ KeyReturned
  /\ last.call.kidkey = <<":", " ", "E", ":", " ">>
  /\ last.key = <<"E", ":">>

\* _build_ffmpeg_cmd_for_region has returned
CmdReturned ==
  last.done /\ last.call.fn = "_build_ffmpeg_cmd_for_region"

\* the integer a decimal text stands for
DigitVal(c) == CHOOSE d \in 0..9 : Digits[d + 1] = c

RECURSIVE NatOf(_)
NatOf(t) ==
  IF Len(t) = 1 THEN DigitVal(t[1])
  ELSE 10 * NatOf(SubSeq(t, 1, Len(t) - 1)) + DigitVal(t[Len(t)])

IsDecimal(t) ==
  LET d == IF t # <<>> /\ t[1] = "-" THEN Tail(t) ELSE t
  IN d # <<>> /\ \A i \in 1..Len(d) : \E k \in 1..10 : Digits[k] = d[i]

IntOf(t) == IF t[1] = "-" THEN 0 - NatOf(Tail(t)) ELSE NatOf(t)

\* the parts of a text before and after the first c in it
FirstAt(t, c) ==
  CHOOSE i \in 1..Len(t) : t[i] = c /\ \A j \in 1..(i - 1) : t[j] # c
Before(t, c) == SubSeq(t, 1, FirstAt(t, c) - 1)
After(t, c) == SubSeq(t, FirstAt(t, c) + 1, Len(t))

\* the text stands for the integer n
Reads(t, n) == IsDecimal(t) /\ IntOf(t) = n

\* C20: _build_ffmpeg_cmd_for_region returns None for a system other than
\* Windows, Linux and Darwin, whatever the region and the path; for each of
\* the three it returns an argument list with the flag -y, the frame rate
\* after -framerate, and the width, height, x and y as the decimal texts of
\* the values passed in.
C20_RegionCommand ==
  CmdReturned =>
    LET c == last.call
        cmd == last.cmd
    IN IF c.sys \notin {"Windows", "Linux", "Darwin"}
       THEN cmd = NoCmd
       ELSE /\ cmd # NoCmd
            /\ cmd[1] = "ffmpeg" /\ cmd[2] = "-y"
            /\ cmd[5] = "-framerate" /\ Reads(cmd[6], c.framerate)
            /\ cmd[Len(cmd)] = c.outpath
            /\ CASE c.sys = "Windows" ->
                      /\ cmd[7] = "-offset_x" /\ Reads(cmd[8], c.x)
                      /\ cmd[9] = "-offset_y" /\ Reads(cmd[10], c.y)
                      /\ cmd[11] = "-video_size"
                      /\ Reads(Before(cmd[12], "x"), c.w)
                      /\ Reads(After(cmd[12], "x"), c.h)
                 [] c.sys = "Linux" ->
                      /\ cmd[7] = "-video_size"
                      /\ Reads(Before(cmd[8], "x"), c.w)
                      /\ Reads(After(cmd[8], "x"), c.h)
                      /\ cmd[9] = "-i"
                      /\ Reads(Before(After(cmd[10], "+"), ","), c.x)
                      /\ Reads(After(After(cmd[10], "+"), ","), c.y)
                 [] c.sys = "Darwin" ->
                      LET crop == After(cmd[10], "=")
                          hxy == After(crop, ":")
                          xy == After(hxy, ":")
                      IN /\ cmd[9] = "-vf"
                         /\ Reads(Before(crop, ":"), c.w)
                         /\ Reads(Before(hxy, ":"), c.h)
                         /\ Reads(Before(xy, ":"), c.x)
                         /\ Reads(After(xy, ":"), c.y)

\* the command for a frame with a negative x has been built on Darwin
C20_Witness ==
  /\ CmdReturned
  /\ last.call.sys = "Darwin"
  /\ last.call.x = -1 /\ last.call.y = 30
  /\ last.call.w = 640 /\ last.call.h = 2
  /\ last.cmd[10] = <<"c", "r", "o", "p", "=", "6", "4", "0", ":", "2", ":",
                      "-", "1", ":", "3", "0">>

----------------------------------------------------------------------------
\* The in-process pipeline and its file sink

\* make_media_with_recording (l.126-131): the media being played
\* duplicates its output to the display and to a file
Duplicating == media_sout # NoPath

\* C21: whenever the in-process pipeline is playing, it duplicates its
\* output to a file if and only if the in-process recording is armed.
C21_SoutIffRecording ==
  player = "playing" => (Duplicating <=> recording)

----------------------------------------------------------------------------
\* The button labels and the sessions they stand for

\* record_btn.setText (l.247, l.281, l.309, l.322, l.337)
RecordLabelAgrees ==
  record_btn = "Stop Rec" <=> (ffmpeg_rec_proc # None \/ recording)

\* screen_rec_btn.setText (l.378, l.403)
ScreenLabelAgrees ==
  screen_rec_btn = "Stop ScreenRec" <=> screen_rec_process # None

\* C22: the record button reads Stop Rec if and only if a stream recording
\* is active (external encoder recorded or in-process recording armed), and
\* the screen-record button reads Stop ScreenRec if and only if a
\* screen-recording process is recorded.
C22_LabelsAgree == RecordLabelAgrees /\ ScreenLabelAgrees

====
